---- MODULE Spec2Model ----
(***************************************************************************)
(* Model of libs/portable/build.rs: the build script whose main, when      *)
(* compiled with cfg(windows), fills a winres::WindowsResource and         *)
(* compiles it, writing the error to stderr and exiting with 1 on failure. *)
(*                                                                         *)
(* The build driver may run the script several times (MaxRuns); the files, *)
(* the toolchain and the platform are the same in every run of one         *)
(* behaviour, the outcome of each write to stderr is drawn afresh.         *)
(***************************************************************************)
EXTENDS Integers, Sequences, FiniteSets, TLC

VARIABLES
    cfgWindows,     \* whether main was compiled with cfg(windows)
    iconFile,       \* state of ../../res/icon.ico
    manifestFile,   \* state of ../../res/manifest.xml
    toolchainOk,    \* whether the resource compiler can be run
    defaults,       \* the properties WindowsResource::new() seeds
    run,            \* number of the current invocation of the script
    pc,             \* position of the current invocation in main
    res,            \* the local `res`
    submitted,      \* the descriptor compile() was called on
    compileCalls,   \* calls of compile() in the current invocation
    compileResult,  \* "none" | "ok" | "err": what compile() returned
    err,            \* the `e` of `Err(e)`
    writeResult,    \* "none" | "ok" | "err": what write! returned
    stderr,         \* what the current invocation's stderr received
    exitCode,       \* exit code of the current invocation, Running before
    artifact,       \* the resource section of the build output
    artifact0,      \* the resource section when the invocation started
    history         \* outcomes of the finished earlier invocations

vars == <<cfgWindows, iconFile, manifestFile, toolchainOk, defaults, run, pc,
          res, submitted, compileCalls, compileResult, err, writeResult,
          stderr, exitCode, artifact, artifact0, history>>

inputs == <<cfgWindows, iconFile, manifestFile, toolchainOk, defaults>>

----------------------------------------------------------------------------
\* Bounds.

MaxRuns == 2

----------------------------------------------------------------------------
\* Literals of main.

IconPath == "../../res/icon.ico"

ManifestPath == "../../res/manifest.xml"

LANG_ENGLISH == 9

SUBLANG_ENGLISH_US == 1

MAKELANGID(p, s) == s * 1024 + p

\* Exit codes: the process is still running; main returned; exit(1); the
\* runtime's exit code after a panic (the unwrap of a failed write).
Running == -1

ExitSuccess == 0

ExitFailure == 1

ExitPanic == 101

PanicMsg == "panicked: called Result::unwrap() on an Err value"

----------------------------------------------------------------------------
\* The environment.

FileStates == {"valid", "missing", "malformed"}

EmptyProps == [k \in {} |-> ""]

DefaultKeys == {"FileVersion", "ProductVersion", "ProductName", "FileDescription"}

DefaultValue(k) == "cargo:" \o k

\* What WindowsResource::new() may seed: the library takes version, name and
\* description from the package; main does not clear them.
DefaultProps == {[k \in D |-> DefaultValue(k)] : D \in SUBSET DefaultKeys}

NoRes == [created |-> FALSE, icon |-> "", language |-> 0, manifest |-> "",
          props |-> EmptyProps]

WindowsResourceNew(d) ==
    [created |-> TRUE, icon |-> "", language |-> 0, manifest |-> "", props |-> d]

\* HashMap insert: the value replaces an earlier one under the same key.
Set(r, k, v) ==
    [r EXCEPT !.props = [x \in (DOMAIN r.props) \cup {k} |->
                            IF x = k THEN v ELSE r.props[x]]]

\* The result of the external compile step.
CompileOutcome(icon, manifest, tc) ==
    IF ~tc THEN "ToolchainError"
    ELSE IF icon # "valid" \/ manifest # "valid" THEN "CompileFailed"
    ELSE "Ok"

\* Display of the error, in the pieces the formatter hands to the stream.
Display(e) ==
    IF e = "ToolchainError" THEN <<"program not found">>
    ELSE <<"Could not compile", " resource file">>

----------------------------------------------------------------------------

Terminated == pc \in {"done", "exited", "panicked"}

Init ==
    /\ cfgWindows \in BOOLEAN
    /\ iconFile \in FileStates
    /\ manifestFile \in FileStates
    /\ toolchainOk \in BOOLEAN
    /\ defaults \in DefaultProps
    /\ run = 1
    /\ pc = "start"
    /\ res = NoRes
    /\ submitted = NoRes
    /\ compileCalls = 0
    /\ compileResult = "none"
    /\ err = "none"
    /\ writeResult = "none"
    /\ stderr = <<>>
    /\ exitCode = Running
    /\ artifact = NoRes
    /\ artifact0 = NoRes
    /\ history = <<>>

----------------------------------------------------------------------------
\* main, one action per statement.

env == <<cfgWindows, iconFile, manifestFile, toolchainOk, defaults, run,
         artifact0, history>>

afterCompile == <<submitted, compileCalls, compileResult, err, artifact>>

output == <<writeResult, stderr, exitCode>>

\* Without cfg(windows) the body of main is empty: main returns at once.
SkipBody ==
    /\ pc = "start"
    /\ ~cfgWindows
    /\ pc' = "done"
    /\ exitCode' = ExitSuccess
    /\ UNCHANGED <<env, res, afterCompile, writeResult, stderr>>

\* New without the platform guard.
New_NoCfg ==
    /\ pc = "start"
    /\ res' = WindowsResourceNew(defaults)
    /\ pc' = "set_icon"
    /\ UNCHANGED <<env, afterCompile, output>>

\* let mut res = winres::WindowsResource::new();
New ==
    /\ pc = "start"
    /\ cfgWindows
    /\ res' = WindowsResourceNew(defaults)
    /\ pc' = "set_icon"
    /\ UNCHANGED <<env, afterCompile, output>>

\* res.set_icon("../../res/icon.ico")
SetIcon ==
    /\ pc = "set_icon"
    /\ res' = [res EXCEPT !.icon = IconPath]
    /\ pc' = "set_language"
    /\ UNCHANGED <<env, afterCompile, output>>

\* .set_language(MAKELANGID(LANG_ENGLISH, SUBLANG_ENGLISH_US))
SetLanguage ==
    /\ pc = "set_language"
    /\ res' = [res EXCEPT !.language = MAKELANGID(LANG_ENGLISH, SUBLANG_ENGLISH_US)]
    /\ pc' = "set_manifest_file"
    /\ UNCHANGED <<env, afterCompile, output>>

\* .set_manifest_file("../../res/manifest.xml")
SetManifestFile ==
    /\ pc = "set_manifest_file"
    /\ res' = [res EXCEPT !.manifest = ManifestPath]
    /\ pc' = "set_CompanyName"
    /\ UNCHANGED <<env, afterCompile, output>>

\* .set("CompanyName", "OFARCH S.A.S.")
SetCompanyName ==
    /\ pc = "set_CompanyName"
    /\ res' = Set(res, "CompanyName", "OFARCH S.A.S.")
    /\ pc' = "set_ProductName"
    /\ UNCHANGED <<env, afterCompile, output>>

\* The chain without .set("ProductName", ..).
SetProductName_Skipped ==
    /\ pc = "set_ProductName"
    /\ res' = res
    /\ pc' = "set_FileDescription"
    /\ UNCHANGED <<env, afterCompile, output>>

\* .set("ProductName", "OFARCHDesk")
SetProductName ==
    /\ pc = "set_ProductName"
    /\ res' = Set(res, "ProductName", "OFARCHDesk")
    /\ pc' = "set_FileDescription"
    /\ UNCHANGED <<env, afterCompile, output>>

\* .set("FileDescription", "OFARCH Soporte Remoto")
SetFileDescription ==
    /\ pc = "set_FileDescription"
    /\ res' = Set(res, "FileDescription", "OFARCH Soporte Remoto")
    /\ pc' = "set_OriginalFilename"
    /\ UNCHANGED <<env, afterCompile, output>>

\* OriginalFilename set only after compile() has been called.
SetOriginalFilename_AfterCompile ==
    \/ /\ pc = "set_OriginalFilename"
       /\ res' = res
       /\ pc' = "compile"
       /\ UNCHANGED <<env, afterCompile, output>>
    \/ /\ pc = "return"
       /\ ~("OriginalFilename" \in DOMAIN res.props)
       /\ res' = Set(res, "OriginalFilename", "OFARCHDesk.exe")
       /\ pc' = "return"
       /\ UNCHANGED <<env, afterCompile, output>>

\* .set("OriginalFilename", "OFARCHDesk.exe");
SetOriginalFilename ==
    /\ pc = "set_OriginalFilename"
    /\ res' = Set(res, "OriginalFilename", "OFARCHDesk.exe")
    /\ pc' = "compile"
    /\ UNCHANGED <<env, afterCompile, output>>

\* The resource section the compile step produces from a descriptor.
Embed(r) ==
    [created |-> TRUE, icon |-> r.icon, language |-> r.language,
     manifest |-> r.manifest, props |-> r.props]

\* The result of compile() dropped: main returns whatever it was.
Compile_IgnoreErr ==
    /\ pc = "compile"
    /\ compileCalls' = compileCalls + 1
    /\ submitted' = res
    /\ LET o == CompileOutcome(iconFile, manifestFile, toolchainOk) IN
         IF o = "Ok"
         THEN /\ compileResult' = "ok"
              /\ err' = "none"
              /\ artifact' = Embed(res)
         ELSE /\ compileResult' = "err"
              /\ err' = o
              /\ artifact' = artifact
    /\ pc' = "return"
    /\ UNCHANGED <<env, res, output>>

\* compile() called a second time after a first failure.
Compile_Retry ==
    /\ pc = "compile"
    /\ compileCalls' = compileCalls + 1
    /\ submitted' = res
    /\ LET o == CompileOutcome(iconFile, manifestFile, toolchainOk) IN
         IF o = "Ok"
         THEN /\ compileResult' = "ok"
              /\ err' = "none"
              /\ artifact' = Embed(res)
              /\ pc' = "return"
         ELSE /\ compileResult' = "err"
              /\ err' = o
              /\ artifact' = artifact
              /\ pc' = IF compileCalls = 0 THEN "compile" ELSE "write"
    /\ UNCHANGED <<env, res, output>>

\* A compile step that embeds the number of the build.
Compile_Stamped ==
    /\ pc = "compile"
    /\ compileCalls' = compileCalls + 1
    /\ submitted' = res
    /\ LET o == CompileOutcome(iconFile, manifestFile, toolchainOk) IN
         IF o = "Ok"
         THEN /\ compileResult' = "ok"
              /\ err' = "none"
              /\ artifact' = Embed(Set(res, "BuildNumber", ToString(run)))
              /\ pc' = "return"
         ELSE /\ compileResult' = "err"
              /\ err' = o
              /\ artifact' = artifact
              /\ pc' = "write"
    /\ UNCHANGED <<env, res, output>>

\* if let Err(e) = res.compile() { ... }: the call and the match on its result.
Compile ==
    /\ pc = "compile"
    /\ compileCalls' = compileCalls + 1
    /\ submitted' = res
    /\ LET o == CompileOutcome(iconFile, manifestFile, toolchainOk) IN
         IF o = "Ok"
         THEN /\ compileResult' = "ok"
              /\ err' = "none"
              /\ artifact' = Embed(res)
              /\ pc' = "return"
         ELSE /\ compileResult' = "err"
              /\ err' = o
              /\ artifact' = artifact
              /\ pc' = "write"
    /\ UNCHANGED <<env, res, output>>

\* exit(1) on the success path.
ReturnOk_Fail ==
    /\ pc = "return"
    /\ pc' = "exited"
    /\ exitCode' = ExitFailure
    /\ UNCHANGED <<env, res, afterCompile, writeResult, stderr>>

\* No error: the block ends and main returns.
ReturnOk ==
    /\ pc = "return"
    /\ pc' = "done"
    /\ exitCode' = ExitSuccess
    /\ UNCHANGED <<env, res, afterCompile, writeResult, stderr>>

\* A write that reports Ok after the first piece of the text.
WriteChunk_Truncated ==
    /\ pc = "write"
    /\ stderr' = Append(stderr, Display(err)[1])
    /\ writeResult' = "ok"
    /\ pc' = "exit"
    /\ UNCHANGED <<env, res, afterCompile, exitCode>>

\* write!(std::io::stderr(), "{}", e): the next piece of the text reaches the
\* stream; after the last one the write returns Ok and unwrap yields.
WriteChunk ==
    /\ pc = "write"
    /\ Len(stderr) < Len(Display(err))
    /\ stderr' = Append(stderr, Display(err)[Len(stderr) + 1])
    /\ IF Len(stderr) + 1 = Len(Display(err))
       THEN writeResult' = "ok" /\ pc' = "exit"
       ELSE writeResult' = writeResult /\ pc' = "write"
    /\ UNCHANGED <<env, res, afterCompile, exitCode>>

\* The write's error dropped instead of unwrapped: exit(1) follows.
WriteFail_Ignored ==
    /\ pc = "write"
    /\ writeResult' = "err"
    /\ pc' = "exit"
    /\ UNCHANGED <<env, res, afterCompile, stderr, exitCode>>

\* write!(...).unwrap() when the stream reports an error: unwrap panics, the
\* panic message goes to the same stream if it can, and the runtime ends the
\* process with its panic exit code.
WriteFail ==
    /\ pc = "write"
    /\ writeResult' = "err"
    /\ stderr' \in {stderr, Append(stderr, PanicMsg)}
    /\ pc' = "panicked"
    /\ exitCode' = ExitPanic
    /\ UNCHANGED <<env, res, afterCompile>>

\* exit(0) on the failure path.
Exit_Zero ==
    /\ pc = "exit"
    /\ pc' = "exited"
    /\ exitCode' = ExitSuccess
    /\ UNCHANGED <<env, res, afterCompile, writeResult, stderr>>

\* std::process::exit(1);
Exit ==
    /\ pc = "exit"
    /\ pc' = "exited"
    /\ exitCode' = ExitFailure
    /\ UNCHANGED <<env, res, afterCompile, writeResult, stderr>>

Outcome == [exit |-> exitCode, section |-> artifact, write |-> writeResult]

\* The build driver runs the script again: a new process, with the same files
\* and platform and the build output the earlier runs left.
Restart ==
    /\ Terminated
    /\ run < MaxRuns
    /\ run' = run + 1
    /\ history' = Append(history, Outcome)
    /\ artifact0' = artifact
    /\ pc' = "start"
    /\ res' = NoRes
    /\ submitted' = NoRes
    /\ compileCalls' = 0
    /\ compileResult' = "none"
    /\ err' = "none"
    /\ writeResult' = "none"
    /\ stderr' = <<>>
    /\ exitCode' = Running
    /\ UNCHANGED <<inputs, artifact>>

MainStep ==
    \/ SkipBody
    \/ New
    \/ SetIcon
    \/ SetLanguage
    \/ SetManifestFile
    \/ SetCompanyName
    \/ SetProductName
    \/ SetFileDescription
    \/ SetOriginalFilename
    \/ Compile
    \/ ReturnOk
    \/ WriteChunk
    \/ WriteFail
    \/ Exit

Next == MainStep \/ Restart

Spec == Init /\ [][Next]_vars

\* main is sequential code: a process that can take a step takes one.
FairSpec == Spec /\ WF_vars(MainStep)

----------------------------------------------------------------------------
\* What the claims speak of.

\* The embedded metadata of the specification's table (section 6).
Metadata ==
    [CompanyName |-> "OFARCH S.A.S.",
     ProductName |-> "OFARCHDesk",
     FileDescription |-> "OFARCH Soporte Remoto",
     OriginalFilename |-> "OFARCHDesk.exe"]

HasMetadata(r) ==
    \A k \in DOMAIN Metadata : k \in DOMAIN r.props /\ r.props[k] = Metadata[k]

\* Icon, language English (US) = 0x0409, manifest and the four entries.
FullyPopulated(r) ==
    /\ r.created
    /\ r.icon = "../../res/icon.ico"
    /\ r.language = 1033
    /\ r.manifest = "../../res/manifest.xml"
    /\ HasMetadata(r)

\* The state machine of the specification (section 4.1), read off the result
\* of compile().
EmbedState ==
    IF compileResult = "ok" THEN "Embedded"
    ELSE IF compileResult = "err" THEN "Failed"
    ELSE "Pending"

\* The outcomes of the invocations that have finished, the current one included.
Outcomes == IF Terminated THEN Append(history, Outcome) ELSE history

----------------------------------------------------------------------------
\* C1: without cfg(windows) main does nothing: no descriptor is created,
\* compile() is never called, nothing reaches stderr, the build output is left
\* as it was, and main returns with exit code 0, whatever the state of the
\* icon and manifest files.
C1_NonWindowsNoOp ==
    ~cfgWindows =>
        /\ res = NoRes
        /\ submitted = NoRes
        /\ compileCalls = 0
        /\ compileResult = "none"
        /\ writeResult = "none"
        /\ stderr = <<>>
        /\ artifact = artifact0
        /\ pc \in {"start", "done"}
        /\ exitCode = (IF pc = "done" THEN 0 ELSE Running)

C1_Witness ==
    /\ ~cfgWindows
    /\ iconFile = "missing"
    /\ manifestFile = "malformed"
    /\ pc = "done"
    /\ exitCode = 0

----------------------------------------------------------------------------
\* C2, as stated: on Windows, every run in which compile() reports an error
\* ends with exit code 1 and the error's text on stderr, also when the write
\* to stderr fails.
C2_Original ==
    (cfgWindows /\ compileResult = "err" /\ Terminated) =>
        exitCode = 1 /\ stderr = Display(err)

\* C2, amended: on Windows, every run in which compile() reports an error
\* ends with a non-zero exit code: 1, with exactly the error's text on stderr,
\* when the write returned Ok; 101, the panic of unwrap, with the error's text
\* not completely written, when the write returned an error.
C2_FailureReported ==
    (cfgWindows /\ compileResult = "err" /\ Terminated) =>
        /\ exitCode \in {1, 101}
        /\ exitCode = 1 <=> writeResult = "ok"
        /\ exitCode = 101 <=> writeResult = "err"
        /\ writeResult = "ok" => stderr = Display(err)
        /\ writeResult = "err" =>
               \A i \in 1..Len(stderr) : stderr[i] # Display(err)[Len(Display(err))]

C2_Witness ==
    /\ cfgWindows
    /\ compileResult = "err"
    /\ pc = "exited"
    /\ exitCode = 1
    /\ Len(stderr) = 2
    /\ stderr = Display(err)

----------------------------------------------------------------------------
\* C3, as stated: the exit code is 0 iff the target is not Windows or
\* compile() succeeded, 1 iff the target is Windows and compile() failed, and
\* never anything else.
C3_Original ==
    Terminated =>
        /\ exitCode \in {0, 1}
        /\ exitCode = 0 <=> (~cfgWindows \/ compileResult = "ok")
        /\ exitCode = 1 <=> (cfgWindows /\ compileResult = "err")

\* C3, amended: the exit code is 0 iff the target is not Windows or compile()
\* succeeded; 1 iff the target is Windows, compile() failed and the write to
\* stderr succeeded; 101 iff the target is Windows, compile() failed and the
\* write to stderr failed; and never anything else.
C3_ExitCodes ==
    Terminated =>
        /\ exitCode \in {0, 1, 101}
        /\ exitCode = 0 <=> (~cfgWindows \/ compileResult = "ok")
        /\ exitCode = 1 <=>
               (cfgWindows /\ compileResult = "err" /\ writeResult = "ok")
        /\ exitCode = 101 <=>
               (cfgWindows /\ compileResult = "err" /\ writeResult = "err")

C3_Witness ==
    /\ cfgWindows
    /\ compileResult = "err"
    /\ writeResult = "err"
    /\ pc = "panicked"
    /\ exitCode = 101

----------------------------------------------------------------------------
\* C4, as stated: on Windows, when the icon or the manifest file does not
\* exist, the run ends with exit code 1 and a non-empty error message on
\* stderr.
C4_Original ==
    (cfgWindows /\ Terminated /\ (iconFile = "missing" \/ manifestFile = "missing")) =>
        exitCode = 1 /\ stderr = Display(err) /\ Len(stderr) > 0

\* C4, amended: on Windows, when the icon or the manifest file does not
\* exist, compile() reports an error and the run ends with a non-zero exit
\* code; when the write to stderr succeeds the exit code is 1 and stderr holds
\* the non-empty error text; when the write fails the exit code is 101.
C4_MissingFile ==
    (cfgWindows /\ Terminated /\ (iconFile = "missing" \/ manifestFile = "missing")) =>
        /\ compileResult = "err"
        /\ exitCode # 0
        /\ IF writeResult = "ok"
           THEN exitCode = 1 /\ stderr = Display(err) /\ Len(stderr) > 0
           ELSE exitCode = 101

C4_Witness ==
    /\ cfgWindows
    /\ iconFile = "valid"
    /\ manifestFile = "missing"
    /\ toolchainOk
    /\ pc = "exited"
    /\ exitCode = 1
    /\ Len(stderr) > 0

----------------------------------------------------------------------------
----------------------------------------------------------------------------
\* C6: in every Windows run compile() is called only once the icon path, the
\* language identifier English (US), the manifest path and the four metadata
\* entries are set, on the descriptor as the last set left it, and nothing
\* modifies the descriptor afterwards.
C6_PopulatedBeforeCompile ==
    /\ pc = "compile" => FullyPopulated(res) /\ compileCalls = 0
    /\ compileCalls > 0 => FullyPopulated(submitted) /\ submitted = res
    /\ compileCalls = 0 => submitted = NoRes /\ compileResult = "none"

C6_Witness ==
    /\ cfgWindows
    /\ compileCalls = 1
    /\ pc \in {"write", "return"}
    /\ FullyPopulated(submitted)

----------------------------------------------------------------------------
\* C7, as stated: in every terminal state either the resource section holds
\* the complete descriptor and the build did not fail, or the build failed
\* and the resource section is unchanged; a partly embedded descriptor never
\* goes with exit code 0.
C7_Original ==
    Terminated =>
        /\ \/ FullyPopulated(artifact) /\ exitCode = 0
           \/ exitCode # 0 /\ artifact = artifact0
        /\ ~(exitCode = 0 /\ artifact.created /\ ~FullyPopulated(artifact))

\* C7, amended: in every terminal state of a Windows run either the resource
\* section holds the complete descriptor and the exit code is 0, or the build
\* failed (non-zero exit code) and the resource section is unchanged; a
\* non-Windows run ends with exit code 0 and the resource section unchanged;
\* a partly embedded descriptor never goes with exit code 0.
C7_AllOrNothing ==
    Terminated =>
        /\ \/ cfgWindows /\ FullyPopulated(artifact) /\ artifact = Embed(submitted)
                /\ exitCode = 0
           \/ cfgWindows /\ exitCode \in {1, 101} /\ artifact = artifact0
           \/ ~cfgWindows /\ exitCode = 0 /\ artifact = artifact0
        /\ ~(exitCode = 0 /\ artifact.created /\ ~FullyPopulated(artifact))

C7_Witness ==
    /\ cfgWindows
    /\ pc = "exited"
    /\ exitCode = 1
    /\ compileCalls = 1
    /\ artifact = NoRes
    /\ artifact0 = NoRes

----------------------------------------------------------------------------
\* C8, as stated: every run that has ended has gone from Pending to exactly
\* one of Embedded or Failed, with compile() called at most once.
C8_Original ==
    /\ compileCalls <= 1
    /\ Terminated => EmbedState \in {"Embedded", "Failed"}

\* C8, amended: every Windows run goes from Pending to exactly one of
\* Embedded or Failed, and has done so when it ends; both are terminal
\* (the run stays in the state it reached), compile() is called at most once
\* per run, exactly when the run leaves Pending, and there is no other state;
\* a non-Windows run skips the step and stays Pending.
C8_StateMachine ==
    /\ [](/\ compileResult \in {"none", "ok", "err"}
          /\ compileCalls <= 1
          /\ EmbedState # "Pending" <=> compileCalls = 1
          /\ (cfgWindows /\ Terminated) => EmbedState \in {"Embedded", "Failed"}
          /\ ~cfgWindows => EmbedState = "Pending")
    /\ [][(run' = run /\ EmbedState # "Pending") =>
              (EmbedState' = EmbedState /\ compileCalls' = compileCalls)]_vars
    /\ []((cfgWindows /\ EmbedState = "Pending") => <>(EmbedState # "Pending"))

C8_Witness ==
    /\ cfgWindows
    /\ pc = "panicked"
    /\ EmbedState = "Failed"
    /\ compileCalls = 1
    /\ run = 2

----------------------------------------------------------------------------
----------------------------------------------------------------------------
\* C10: exit(1) is reached only after the write of the error to stderr has
\* returned Ok, with the whole text written, and nothing reaches stderr in a
\* run in which compile() succeeded or the target is not Windows.
C10_WriteBeforeExit ==
    /\ pc \in {"exit", "exited"} => writeResult = "ok" /\ stderr = Display(err)
    /\ exitCode = 1 => pc = "exited"
    /\ (~cfgWindows \/ compileResult = "ok") => stderr = <<>> /\ writeResult = "none"

C10_Witness ==
    /\ pc = "exit"
    /\ exitCode = Running
    /\ writeResult = "ok"
    /\ stderr = Display(err)

====
